---- MODULE Spec2Model ----
(***************************************************************************)
(* Meeting scheduler backends: the QUBO builders, the sampler contract,    *)
(* the decoder, the greedy fallbacks and the optimize()/main() control     *)
(* flow of src/backend/*.py and src/quantum/qaoa_scheduler.py.             *)
(*                                                                         *)
(* Python strings are sequences of one-character strings, so that the      *)
(* f-string that names a variable and the split('_') that parses it are    *)
(* computed and not assumed to be inverse to each other.  Python dicts are *)
(* functions; a key that is absent is absent from the DOMAIN.              *)
(***************************************************************************)
EXTENDS Integers, Sequences, FiniteSets, TLC

VARIABLES
    sched,          \* which class is running: "dwave", "hybrid", "qiskit", "qaoa"
    problem_data,   \* the problemData dict handed to the scheduler
    pc,             \* position of the call
    bqm,            \* the model built by _build_bqm (its linear terms), or NoValue
    sample,         \* the solution dict returned by the sampler (empty before the solve)
    result,         \* the dict returned by optimize() / printed by main(), or NoValue
    exc,            \* the exception in flight, or "none"
    solves,         \* the solver invocations of this call, in order, by strategy
    fallbacks,      \* _classical_fallback invocations of this call
    samplers,       \* which samplers __init__ installed (not None)
    input,          \* what main finds to read: "missing", "malformed" or "json"
    rerun           \* the dict a second call of the fallback on the same input returns

vars == <<sched, problem_data, pc, bqm, sample, result, exc, solves, fallbacks, samplers, input, rerun>>

(***************************************************************************)
(* Bounds of the model.                                                    *)
(***************************************************************************)
MaxRequests == 2    \* longest request list drawn in Init
MaxHosts == 2       \* longest host list drawn in Init
MaxActive == 2      \* most variables a drawn sample of the built model sets to 1
MaxCallActive == 1  \* most variables a sample returned within a call sets to 1

(***************************************************************************)
(* Program constants.                                                      *)
(***************************************************************************)
num_slots == 56
penalty_multiple_assignments == 500
penalty_host_conflict == 800
expertise_weight == 20
preferred_bonus == 10
preferred_slots == 24
default_importance == 50
hybrid_penalty == 100
hybrid_threshold == 5000

NoValue == [none |-> TRUE]

(***************************************************************************)
(* Strings.                                                                *)
(***************************************************************************)
US == "_"
Digits == <<"0", "1", "2", "3", "4", "5", "6", "7", "8", "9">>
DigitChars == {Digits[i] : i \in 1..Len(Digits)}
DigitVal(c) == (CHOOSE i \in 1..Len(Digits) : Digits[i] = c) - 1

\* str(n) of a slot index (0 <= n < 100)
Str(n) ==
    IF n < Len(Digits) THEN <<Digits[n + 1]>>
    ELSE <<Digits[(n \div Len(Digits)) + 1], Digits[(n % Len(Digits)) + 1]>>

\* int(p): defined on non-empty digit strings, raises ValueError otherwise
IsInt(p) == Len(p) > 0 /\ \A i \in 1..Len(p) : p[i] \in DigitChars

RECURSIVE ParseInt(_)
ParseInt(p) ==
    IF Len(p) = 0 THEN 0
    ELSE ParseInt(SubSeq(p, 1, Len(p) - 1)) * Len(Digits) + DigitVal(p[Len(p)])

\* s.split('_'): the parts between the underscores, empty parts included
RECURSIVE Split(_)
Split(s) ==
    IF \A i \in 1..Len(s) : s[i] # US THEN <<s>>
    ELSE LET k == CHOOSE i \in 1..Len(s) :
                      s[i] = US /\ \A j \in 1..(i - 1) : s[j] # US
         IN  <<SubSeq(s, 1, k - 1)>> \o Split(SubSeq(s, k + 1, Len(s)))

\* dict.get(k, default)
Get(d, k, default) == IF k \in DOMAIN d THEN d[k] ELSE default

Abs(x) == IF x < 0 THEN -x ELSE x

RECURSIVE SumOver(_, _)
SumOver(S, f) ==
    IF S = {} THEN 0
    ELSE LET x == CHOOSE y \in S : TRUE IN f[x] + SumOver(S \ {x}, f)

\* f[lo] + ... + f[hi], added up by halves of the range
RECURSIVE SumRange(_, _, _)
SumRange(f, lo, hi) ==
    IF lo > hi THEN 0
    ELSE IF lo = hi THEN f[lo]
    ELSE SumRange(f, lo, (lo + hi) \div 2) + SumRange(f, ((lo + hi) \div 2) + 1, hi)

SetMin(S) == CHOOSE x \in S : \A y \in S : x <= y
SetMax(S) == CHOOSE x \in S : \A y \in S : x >= y

\* f"{req['id']}_{host['id']}_{slot}"
VarName(req_id, host_id, slot) == req_id \o <<US>> \o host_id \o <<US>> \o Str(slot)

(***************************************************************************)
(* The (request, host, slot) combinations the builders and fallbacks loop  *)
(* over, as index triples into the two input lists.                        *)
(***************************************************************************)
Triples(requests, hosts) ==
    {<<i, j, s>> : i \in 1..Len(requests), j \in 1..Len(hosts), s \in 0..(num_slots - 1)}

\* position of a triple in the order  for req: for host: for slot
Order(hosts, t) == ((t[1] - 1) * Len(hosts) + (t[2] - 1)) * num_slots + t[3]

\* the name of a combination; prefix is <<>> (dwave_backend) or "x_" (the others)
XPrefix == <<"x", US>>
NameOf(prefix, requests, hosts, t) ==
    prefix \o VarName(requests[t[1]].id, hosts[t[2]].id, t[3])

(***************************************************************************)
(* DWaveQuantumScheduler._check_expertise_match                            *)
(***************************************************************************)
check_expertise_match(request, host) ==
    LET req_expertise == Get(request, "expertise", {})
        host_expertise == Get(host, "expertise", {})
        matches == Cardinality(req_expertise \cap host_expertise)
    IN  IF req_expertise = {} \/ host_expertise = {} THEN 0
        ELSE IF matches >= Cardinality(req_expertise) THEN 2
        ELSE IF matches > 0 THEN 1
        ELSE -1

(***************************************************************************)
(* DWaveQuantumScheduler._build_bqm.  The linear terms are the dict the    *)
(* code fills: the reward of the last combination written under a name,    *)
(* minus the one-hot penalty once for every combination that has the name, *)
(* minus the preferred-date bonus for each of them in the first 24 slots.  *)
(***************************************************************************)
\* a reward that leaves the expertise match out
dwave_reward_importance_only(request, host) ==
    -Get(request, "importance", default_importance)

dwave_reward(request, host) ==
    -(Get(request, "importance", default_importance)
        + check_expertise_match(request, host) * expertise_weight)

dwave_linear(requests, hosts) ==
    LET P == (1..Len(requests)) \X (1..Len(hosts))
        names == {NameOf(<<>>, requests, hosts, t) : t \in Triples(requests, hosts)}
        \* the combinations written under a name: a name ends in "_<slot>", so
        \* they all have the slot of the name
        Named(v) ==
            LET parts == Split(v)
                slot == ParseInt(parts[Len(parts)])
            IN  {t \in {<<p[1], p[2], slot>> : p \in P} :
                    NameOf(<<>>, requests, hosts, t) = v}
        Last(S) == CHOOSE t \in S : \A u \in S : Order(hosts, u) <= Order(hosts, t)
        Preferred(S) == {t \in S :
                            /\ Get(requests[t[1]], "preferredDates", <<>>) # <<>>
                            /\ t[3] < preferred_slots}
    IN  [v \in names |->
            LET named == Named(v)
                last == Last(named)
            IN  dwave_reward(requests[last[1]], hosts[last[2]])
                  - penalty_multiple_assignments * Cardinality(named)
                  - preferred_bonus * Cardinality(Preferred(named))]

\* pairs of distinct combinations, named v1 and v2, of one request / of one (host, slot)
SameRequestPairs(prefix, requests, hosts, v1, v2) ==
    LET T == Triples(requests, hosts)
    IN  {p \in {t \in T : NameOf(prefix, requests, hosts, t) = v1}
                 \X {t \in T : NameOf(prefix, requests, hosts, t) = v2} :
            p[1] # p[2] /\ p[1][1] = p[2][1]}

SameHostSlotPairs(prefix, requests, hosts, v1, v2) ==
    LET T == Triples(requests, hosts)
    IN  {p \in {t \in T : NameOf(prefix, requests, hosts, t) = v1}
                 \X {t \in T : NameOf(prefix, requests, hosts, t) = v2} :
            p[1] # p[2] /\ p[1][2] = p[2][2] /\ p[1][3] = p[2][3]}

\* quadratic_terms[tuple(sorted([v1, v2]))]; 0 when the key was never written
dwave_quadratic(requests, hosts, v1, v2) ==
    2 * penalty_multiple_assignments
        * Cardinality(SameRequestPairs(<<>>, requests, hosts, v1, v2))
    + penalty_host_conflict
        * Cardinality(SameHostSlotPairs(<<>>, requests, hosts, v1, v2))

(***************************************************************************)
(* DWaveHybridScheduler._build_bqm: plain assignments, so the last write   *)
(* under a key stands (the host-slot loop runs after the request loop).    *)
(***************************************************************************)
hybrid_linear(requests, hosts) ==
    LET T == Triples(requests, hosts)
        names == {NameOf(XPrefix, requests, hosts, t) : t \in T}
        Named(v) == {t \in T : NameOf(XPrefix, requests, hosts, t) = v}
        Last(v) == CHOOSE t \in Named(v) :
                       \A u \in Named(v) : Order(hosts, u) <= Order(hosts, t)
    IN  [v \in names |->
            -Get(requests[Last(v)[1]], "importanceScore", default_importance)]

hybrid_quadratic(requests, hosts, v1, v2) ==
    IF SameHostSlotPairs(XPrefix, requests, hosts, v1, v2) # {}
    THEN hybrid_penalty * 2
    ELSE IF SameRequestPairs(XPrefix, requests, hosts, v1, v2) # {}
    THEN hybrid_penalty
    ELSE 0


(***************************************************************************)
(* The model a scheduler builds, and what a sample of it costs.            *)
(***************************************************************************)
Prefix(s) == IF s = "dwave" THEN <<>> ELSE XPrefix

build_linear(s, requests, hosts) ==
    IF s = "dwave" THEN dwave_linear(requests, hosts) ELSE hybrid_linear(requests, hosts)

build_quadratic(s, requests, hosts, v1, v2) ==
    IF s = "dwave" THEN dwave_quadratic(requests, hosts, v1, v2)
    ELSE hybrid_quadratic(requests, hosts, v1, v2)

\* _build_bqm raises KeyError when problem_data has no 'requests' or no 'hosts'
BuildRaises(pd) == ~("requests" \in DOMAIN pd /\ "hosts" \in DOMAIN pd)

\* the keys of quadratic_terms: the pairs of names of two combinations of one
\* request or of one (host, slot)
QuadraticKeys(s, pd) ==
    LET T == Triples(pd.requests, pd.hosts)
        N(t) == NameOf(Prefix(s), pd.requests, pd.hosts, t)
    IN  {{N(p[1]), N(p[2])} :
            p \in {q \in T \X T :
                     /\ Order(pd.hosts, q[1]) < Order(pd.hosts, q[2])
                     /\ \/ q[1][1] = q[2][1]
                        \/ q[1][2] = q[2][2] /\ q[1][3] = q[2][3]}}

\* the model: its linear terms and the number of its quadratic terms (their
\* weights are build_quadratic of the input, which never changes)
\* len(bqm.quadratic), the number of keys of quadratic_terms.  When no two
\* (request, host) pairs spell the same "req_host", every combination has a
\* name of its own and the keys are the pairs of combinations of one request
\* and the pairs of combinations of one (host, slot)
num_quadratic(s, pd) ==
    LET n == Len(pd.requests)
        m == Len(pd.hosts)
        spelled == {pd.requests[p[1]].id \o <<US>> \o pd.hosts[p[2]].id :
                       p \in (1..n) \X (1..m)}
        PairsOf(k) == (k * (k - 1)) \div 2
    IN  IF Cardinality(spelled) = n * m
        THEN n * PairsOf(m * num_slots) + m * num_slots * PairsOf(n)
        ELSE Cardinality(QuadraticKeys(s, pd))

build_bqm(s, pd) ==
    [ linear |-> build_linear(s, pd.requests, pd.hosts),
      num_quadratic |-> num_quadratic(s, pd) ]

Variables(model) == DOMAIN model.linear

Active(smp) == {v \in DOMAIN smp : smp[v] = 1}

Pairs(S) == {P \in {{a, b} : a \in S, b \in S} : Cardinality(P) = 2}

Energy(s, pd, model, A) ==
    LET lin == [v \in A |-> model.linear[v]]
        quad == [P \in Pairs(A) |->
                    LET v1 == CHOOSE v \in P : TRUE
                        v2 == CHOOSE v \in P : v # v1
                    IN  build_quadratic(s, pd.requests, pd.hosts, v1, v2)]
    IN  SumOver(A, lin) + SumOver(Pairs(A), quad)

\* two distinct variables of one request, or of one (host, slot)
Conflict(s, pd, v1, v2) ==
    /\ v1 # v2
    /\ \/ SameRequestPairs(Prefix(s), pd.requests, pd.hosts, v1, v2) # {}
       \/ SameHostSlotPairs(Prefix(s), pd.requests, pd.hosts, v1, v2) # {}

Feasible(s, pd, A) == \A v1 \in A, v2 \in A : ~Conflict(s, pd, v1, v2)

\* the sets of at most k elements of S
RECURSIVE SubsetsUpTo(_, _)
SubsetsUpTo(S, k) ==
    IF k = 0 THEN {{}}
    ELSE LET smaller == SubsetsUpTo(S, k - 1)
         IN  smaller \cup {A \cup {v} : A \in smaller, v \in S}

\* what a sampler may return for a model: a value for every variable, at most
\* k of them 1
SampleSpace(keys, k) ==
    {[v \in keys |-> IF v \in A THEN 1 ELSE 0] : A \in SubsetsUpTo(keys, k)}

(***************************************************************************)
(* Inputs.                                                                 *)
(***************************************************************************)
\* the lists of at most max records of pool, no id twice
RECURSIVE ListsOf(_, _)
ListsOf(pool, max) ==
    IF max = 0 THEN {<<>>}
    ELSE LET shorter == ListsOf(pool, max - 1)
             fresh == {q \in shorter \X pool :
                          \A i \in 1..Len(q[1]) : q[1][i].id # q[2].id}
         IN  shorter \cup {Append(q[1], q[2]) : q \in fresh}

\* requests and hosts of the builder checks: ids with and without an underscore,
\* importance given, defaulted and large, expertise and preferred dates given or not
BuildRequestPool ==
    { [id |-> <<"a">>, importance |-> 600, importanceScore |-> 600],
      [id |-> <<"a", US, "b">>, expertise |-> {"ai"}, preferredDates |-> << <<2025, 11, 20>> >>] }

BuildHostPool ==
    { [id |-> <<"c">>, name |-> "C", expertise |-> {"ai"}],
      [id |-> <<"b", US, "c">>] }

BuildInputs ==
    {[requests |-> rs, hosts |-> hs] :
        rs \in ListsOf(BuildRequestPool, MaxRequests),
        hs \in ListsOf(BuildHostPool, MaxHosts)}

(***************************************************************************)
(* The builders alone: build the model of an input, then draw a sample of  *)
(* its variables.                                                          *)
(***************************************************************************)
InitBuild ==
    /\ sched \in {"dwave", "hybrid"}
    /\ problem_data \in BuildInputs
    /\ input = "json"
    /\ pc = "build"
    /\ bqm = NoValue
    /\ sample = <<>>
    /\ result = NoValue
    /\ rerun = NoValue
    /\ exc = "none"
    /\ solves = <<>>
    /\ fallbacks = 0
    /\ samplers = {}

BuildModel ==
    /\ pc = "build"
    /\ ~BuildRaises(problem_data)
    /\ bqm' = build_bqm(sched, problem_data)
    /\ pc' = "built"
    /\ UNCHANGED <<sched, problem_data, sample, result, exc, solves, fallbacks, samplers, input, rerun>>

DrawSample ==
    /\ pc = "built"
    /\ sample' \in SampleSpace(Variables(bqm), MaxActive)
    /\ pc' = "sampled"
    /\ UNCHANGED <<sched, problem_data, bqm, result, exc, solves, fallbacks, samplers, input, rerun>>

NextBuild == BuildModel \/ DrawSample

SpecBuild == InitBuild /\ [][NextBuild]_vars


(***************************************************************************)
(* The greedy fallbacks.                                                   *)
(***************************************************************************)
\* sorted(requests, key=lambda r: r.get('importanceScore', 0), reverse=True):
\* descending by key, equal keys in input order
SortKey(r) == Get(r, "importanceScore", 0)

sorted_requests(requests) ==
    LET Before(j, i) ==
            \/ SortKey(requests[j]) > SortKey(requests[i])
            \/ SortKey(requests[j]) = SortKey(requests[i]) /\ j < i
        Rank(i) == Cardinality({j \in 1..Len(requests) : Before(j, i)}) + 1
    IN  [k \in 1..Len(requests) |->
            requests[CHOOSE i \in 1..Len(requests) : Rank(i) = k]]

\* the dict: 1 for the names in ones, 0 for every other name in keys
SolutionDict(ones, keys) == [v \in ones \cup keys |-> IF v \in ones THEN 1 ELSE 0]

AllNames(prefix, requests, hosts) ==
    {NameOf(prefix, requests, hosts, t) : t \in Triples(requests, hosts)}

\* 'success_rate': count / max(1, total) * 100, its integer part
Rate(count, total) == (count * 100) \div (IF total > 1 THEN total ELSE 1)

\* DWaveQuantumScheduler._classical_fallback, the loop over sorted_requests:
\* st is (solution's 1-entries, assigned_slots, slot_index)
dwave_assign(req, hosts, st) ==
    LET \* for host in hosts: the first host for which both tests pass
        takes == {j \in 1..Len(hosts) :
                     st.slot_index < num_slots
                     /\ st.slot_index \notin st.assigned_slots}
    IN  IF takes = {} THEN st
        ELSE [ ones |-> st.ones \cup
                   {VarName(req.id, hosts[SetMin(takes)].id, st.slot_index)},
               assigned_slots |-> st.assigned_slots \cup {st.slot_index},
               slot_index |-> st.slot_index + 1 ]

\* the passes for sorted[lo..hi] in order, those of the first half of the
\* range before those of the second
RECURSIVE dwave_passes(_, _, _, _, _)
dwave_passes(sorted, hosts, lo, hi, st) ==
    IF lo > hi THEN st
    ELSE IF lo = hi THEN dwave_assign(sorted[lo], hosts, st)
    ELSE LET mid == (lo + hi) \div 2
             half == dwave_passes(sorted, hosts, lo, mid, st)
         IN  IF half = st THEN dwave_passes(sorted, hosts, mid + 1, hi, st)
             ELSE dwave_passes(sorted, hosts, mid + 1, hi, half)

dwave_greedy(sorted, hosts, i, st) == dwave_passes(sorted, hosts, i, Len(sorted), st)

\* a slot_index that outlives the call: it starts where the calls before left it
carried_state == [ones |-> {}, assigned_slots |-> {}, slot_index |-> fallbacks]

\* solution = {}, assigned_slots = set(), slot_index = 0: locals of the call
fresh_state == [ones |-> {}, assigned_slots |-> {}, slot_index |-> 0]

dwave_classical_fallback(pd) ==
    LET requests == pd.requests
        hosts == pd.hosts
        sorted == sorted_requests(requests)
        st == dwave_greedy(sorted, hosts, 1, fresh_state)
        n == Cardinality(st.assigned_slots)
        score == [k \in 1..Len(sorted) |->
                     Get(sorted[k], "importanceScore", default_importance)]
        firstn == IF n < Len(sorted) THEN n ELSE Len(sorted)
    IN  [ solution |-> SolutionDict(st.ones, AllNames(<<>>, requests, hosts)),
          energy |-> -SumRange(score, 1, firstn),
          status |-> "FALLBACK",
          quantum_backend |-> "classical_simulation",
          active_assignments |-> n,
          success_rate |-> Rate(n, Len(requests)) ]

\* DWaveHybridScheduler._classical_fallback.  score is importance plus
\* (56 - slot) * 0.1; it is kept here times ten.  st is (solution's
\* 1-entries, slot_usage's keys, assigned_requests).
hybrid_best_assignment(req, hosts, slot_usage) ==
    LET free == {c \in (1..Len(hosts)) \X (0..(num_slots - 1)) :
                    <<hosts[c[1]].id, c[2]>> \notin slot_usage}
        Score(c) == Get(req, "importanceScore", default_importance) * 10
                        + (num_slots - c[2])
        First(c, d) == (c[1] - 1) * num_slots + c[2] < (d[1] - 1) * num_slots + d[2]
        \* 'if score > best_score': a later pair replaces the best only when
        \* strictly better, and best_score starts at -1
        wins == {c \in free :
                    /\ Score(c) > -10
                    /\ \A d \in free : Score(d) < Score(c)
                                         \/ (Score(d) = Score(c) /\ ~First(d, c))}
    IN  IF wins = {} THEN <<>> ELSE <<CHOOSE c \in wins : TRUE>>

\* one pass of  for req in sorted_requests:  the best pair, if any, is taken
hybrid_assign(req, hosts, st) ==
    LET best == hybrid_best_assignment(req, hosts, st.slot_usage)
    IN  IF best = <<>> THEN st
        ELSE [ ones |-> st.ones \cup
                   {XPrefix \o VarName(req.id, hosts[best[1][1]].id, best[1][2])},
               slot_usage |-> st.slot_usage \cup
                   {<<hosts[best[1][1]].id, best[1][2]>>},
               assigned_requests |-> st.assigned_requests \cup {req.id} ]

\* the passes for sorted[lo..hi] in order, those of the first half of the
\* range before those of the second
RECURSIVE hybrid_passes(_, _, _, _, _)
hybrid_passes(sorted, hosts, lo, hi, st) ==
    IF lo > hi THEN st
    ELSE IF lo = hi THEN hybrid_assign(sorted[lo], hosts, st)
    ELSE LET mid == (lo + hi) \div 2
             half == hybrid_passes(sorted, hosts, lo, mid, st)
         IN  IF half = st THEN hybrid_passes(sorted, hosts, mid + 1, hi, st)
             ELSE hybrid_passes(sorted, hosts, mid + 1, hi, half)

hybrid_greedy(sorted, hosts, i, st) == hybrid_passes(sorted, hosts, i, Len(sorted), st)

hybrid_classical_fallback(pd) ==
    LET requests == pd.requests
        hosts == pd.hosts
        st == hybrid_greedy(sorted_requests(requests), hosts, 1,
                  [ones |-> {}, slot_usage |-> {}, assigned_requests |-> {}])
        score == [k \in 1..Len(requests) |->
                     IF requests[k].id \in st.assigned_requests
                     THEN Get(requests[k], "importanceScore", default_importance)
                     ELSE 0]
        n == Cardinality(st.assigned_requests)
    IN  [ solution |-> SolutionDict(st.ones, AllNames(XPrefix, requests, hosts)),
          energy |-> -SumRange(score, 1, Len(requests)),
          status |-> "FALLBACK",
          quantum_backend |-> "classical_greedy",
          active_assignments |-> n,
          success_rate |-> Rate(n, Len(requests)) ]

\* QiskitAERScheduler._classical_fallback: requests in input order; the
\* first host whose first availability entry has time slots gets the request
\* in its slot 0, and its next slots (below 3) are written 0.0
TimeSlots(host) ==
    Len(Get(Get(host, "availability", << <<>> >>)[1], "timeSlots", <<>>))

qiskit_slots(host) == IF TimeSlots(host) < 3 THEN TimeSlots(host) ELSE 3

qiskit_classical_fallback(pd) ==
    LET requests == Get(pd, "requests", <<>>)
        hosts == Get(pd, "hosts", <<>>)
        Taking(i) == {j \in 1..Len(hosts) : qiskit_slots(hosts[j]) > 0}
        served == {i \in 1..Len(requests) : Taking(i) # {}}
        ones == {XPrefix \o VarName(requests[i].id, hosts[SetMin(Taking(i))].id, 0) :
                    i \in served}
        zeros == {XPrefix \o VarName(requests[c[1]].id, hosts[SetMin(Taking(c[1]))].id, c[2]) :
                    c \in {d \in served \X (1..2) :
                              d[2] < qiskit_slots(hosts[SetMin(Taking(d[1]))])}}
        assignments == Cardinality(served)
    IN  [ solution |-> [v \in ones \cup zeros |-> IF v \in ones THEN 1 ELSE 0],
          objective_value |-> -assignments * 50,
          status |-> "classical_fallback",
          quantum_backend |-> "classical",
          shots_used |-> 0,
          qaoa_layers |-> 0,
          variables_count |-> Cardinality(ones \cup zeros),
          active_assignments |-> assignments,
          success_rate |-> IF assignments > 0 THEN 100 ELSE 0 ]

\* the KeyError of problem_data['requests'] / problem_data['hosts']
FallbackRaises(s, pd) ==
    s # "qiskit" /\ ~("requests" \in DOMAIN pd /\ "hosts" \in DOMAIN pd)

classical_fallback(s, pd) ==
    IF s = "dwave" THEN dwave_classical_fallback(pd)
    ELSE IF s = "hybrid" THEN hybrid_classical_fallback(pd)
    ELSE qiskit_classical_fallback(pd)

(***************************************************************************)
(* The fallbacks alone: run the fallback of a class on an input.           *)
(***************************************************************************)
FallbackRequestPool ==
    { [id |-> <<"a">>, importance |-> 90, importanceScore |-> 90],
      [id |-> <<"b">>, importance |-> 50, importanceScore |-> 50],
      [id |-> <<"a", US, "b">>],
      [id |-> <<"r", "1">>, importance |-> 90],
      [id |-> <<"r", "2">>, importance |-> 50] }

FallbackHostPool ==
    { [id |-> <<"c">>, name |-> "C",
       availability |-> <<[timeSlots |-> <<"09:00", "10:00">>]>>],
      [id |-> <<"d">>],
      [id |-> <<"b", US, "c">>] }

FallbackInputs ==
    {[requests |-> rs, hosts |-> hs] :
        rs \in ListsOf(FallbackRequestPool, MaxRequests),
        hs \in ListsOf(FallbackHostPool, MaxHosts)}

InitFallback ==
    /\ sched \in {"dwave", "hybrid", "qiskit"}
    /\ problem_data \in FallbackInputs
    /\ input = "json"
    /\ pc = "fallback"
    /\ bqm = NoValue
    /\ sample = <<>>
    /\ result = NoValue
    /\ rerun = NoValue
    /\ exc = "none"
    /\ solves = <<>>
    /\ fallbacks = 0
    /\ samplers = {}

RunFallback ==
    /\ pc = "fallback"
    /\ ~FallbackRaises(sched, problem_data)
    /\ result' = classical_fallback(sched, problem_data)
    /\ fallbacks' = fallbacks + 1
    /\ pc' = "returned"
    /\ UNCHANGED <<sched, problem_data, bqm, sample, exc, solves, samplers, input, rerun>>

NextFallback == RunFallback

SpecFallback == InitFallback /\ [][NextFallback]_vars

\* C1: the result of a fallback never holds two active assignments (value 1)
\* of one (hostId, slot): no two different requests have the variable of the
\* same host and the same slot at 1.
C1_FallbackNoDoubleBooking ==
    (pc = "returned" /\ result.status \in {"FALLBACK", "classical_fallback"}) =>
        LET requests == problem_data.requests
            hosts == problem_data.hosts
            IsOne(t) ==
                LET v == NameOf(Prefix(sched), requests, hosts, t)
                IN  v \in DOMAIN result.solution /\ result.solution[v] = 1
        IN  \A t \in Triples(requests, hosts), u \in Triples(requests, hosts) :
                (t[1] # u[1] /\ t[2] = u[2] /\ t[3] = u[3])
                    => ~(IsOne(t) /\ IsOne(u))

(***************************************************************************)
(* Claims about the built model.                                           *)
(***************************************************************************)
\* the quadratic weights of the same-(host, slot) family and of the same-request family
HostPairWeights(s, pd) ==
    LET T == Triples(pd.requests, pd.hosts)
        N(t) == NameOf(Prefix(s), pd.requests, pd.hosts, t)
    IN  {build_quadratic(s, pd.requests, pd.hosts, N(p[1]), N(p[2])) :
            p \in {q \in T \X T : q[1][1] < q[2][1] /\ q[1][2] = q[2][2] /\ q[1][3] = q[2][3]}}

RequestPairWeights(s, pd) ==
    LET T == Triples(pd.requests, pd.hosts)
        N(t) == NameOf(Prefix(s), pd.requests, pd.hosts, t)
    IN  {build_quadratic(s, pd.requests, pd.hosts, N(p[1]), N(p[2])) :
            p \in {q \in T \X T :
                     q[1][1] = q[2][1] /\ Order(pd.hosts, q[1]) < Order(pd.hosts, q[2])}}

\* C8: in every built model every same-(host, slot) weight exceeds every
\* same-request weight, and every same-request weight exceeds twice the
\* absolute value of every linear weight: P_HOST > P_REQ > 2 * max |linear|.
C8_PenaltyOrdering ==
    pc = "built" =>
        LET wh == HostPairWeights(sched, problem_data)
            wr == RequestPairWeights(sched, problem_data)
        IN  /\ \A h \in wh, r \in wr : h > r
            /\ \A r \in wr, v \in Variables(bqm) : r > 2 * Abs(bqm.linear[v])

\* the least energy of an assignment without a conflict (such an assignment
\* has at most one active variable per request)
MinFeasibleEnergy(s, pd, model) ==
    SetMin({Energy(s, pd, model, B) :
               B \in {X \in SubsetsUpTo(Variables(model), Len(pd.requests)) :
                         Feasible(s, pd, X)}})

\* C9: every minimum-energy assignment of the built model is feasible.  Said
\* of one assignment: an assignment with a conflict is not a minimum, that is
\* (the set of assignments being finite) some feasible assignment costs
\* strictly less than it.
C9_MinimumEnergyFeasible ==
    pc = "sampled" =>
        LET A == Active(sample)
            E == Energy(sched, problem_data, bqm, A)
        IN  \/ Feasible(sched, problem_data, A)
            \/ \E B \in SUBSET A :
                  /\ Feasible(sched, problem_data, B)
                  /\ Energy(sched, problem_data, bqm, B) < E
            \/ MinFeasibleEnergy(sched, problem_data, bqm) < E

\* C10: for n requests and m hosts with pairwise distinct ids the built
\* model has exactly n * m * 56 variables.
C10_VariableCount ==
    pc = "built" =>
        Cardinality(Variables(bqm))
            = Len(problem_data.requests) * Len(problem_data.hosts) * num_slots


(***************************************************************************)
(* DWaveQuantumScheduler._decode_solution                                  *)
(***************************************************************************)
time_mapping ==
    << <<"09:00", "10:00">>, <<"10:00", "11:00">>, <<"11:00", "12:00">>,
       <<"13:00", "14:00">>, <<"14:00", "15:00">>, <<"15:00", "16:00">>,
       <<"16:00", "17:00">>, <<"17:00", "18:00">> >>

slots_per_day == 8
base_day == 15
november_days == 30

\* a date that ignores the day offset
meeting_date_base_only(d) == <<2025, 11, base_day>>

\* (datetime(2025, 11, 15) + timedelta(days=d)).strftime('%Y-%m-%d'), as
\* (year, month, day); for d up to the end of December
meeting_date(d) ==
    IF base_day + d <= november_days THEN <<2025, 11, base_day + d>>
    ELSE <<2025, 12, base_day + d - november_days>>

\* the entries of solution the loop acts on: value == 1 and at least 3 parts
Parsed(solution) ==
    {v \in DOMAIN solution : solution[v] = 1 /\ Len(Split(v)) >= 3}

\* int(parts[2]) raises ValueError
decode_raises(solution) ==
    \E v \in Parsed(solution) : ~IsInt(Split(v)[3])

Lookup(list, id) == {i \in 1..Len(list) : list[i].id = id}

\* requests_map.get(id): the last entry of the list with that id
MapGet(list, id) == list[SetMax(Lookup(list, id))]

Meeting(v, pd) ==
    LET parts == Split(v)
        slot == ParseInt(parts[3])
        request == MapGet(pd.requests, parts[1])
        host == MapGet(pd.hosts, parts[2])
    IN  [ requestId |-> parts[1],
          hostId |-> parts[2],
          hostName |-> Get(host, "name", "Unknown"),
          attendeeName |-> Get(request, "hostName", "Unknown"),
          topic |-> Get(request, "topic", "Meeting"),
          date |-> meeting_date(slot \div slots_per_day),
          startTime |-> time_mapping[(slot % slots_per_day) + 1][1],
          endTime |-> time_mapping[(slot % slots_per_day) + 1][2],
          importance |-> Get(request, "importance", default_importance),
          slot |-> slot ]

\* a decoder that drops an entry when another active entry has its request or
\* its host and slot
ResolvedFeasibleOnly(solution, pd) ==
    {v \in Parsed(solution) :
        /\ Lookup(pd.requests, Split(v)[1]) # {}
        /\ Lookup(pd.hosts, Split(v)[2]) # {}
        /\ \A w \in Parsed(solution) \ {v} :
              /\ Split(w)[1] # Split(v)[1]
              /\ <<Split(w)[2], Split(w)[3]>> # <<Split(v)[2], Split(v)[3]>>}

\* the entries that yield a meeting: request and host are both known
Resolved(solution, pd) ==
    {v \in Parsed(solution) :
        /\ Lookup(pd.requests, Split(v)[1]) # {}
        /\ Lookup(pd.hosts, Split(v)[2]) # {}}

\* the place of a key in the dict's order: a sample keeps the order in which
\* linear_terms first got the name, the fallback wrote its 1-entries in slot order
KeyRank(res, pd, v) ==
    IF res.status = "FALLBACK" THEN ParseInt(Split(v)[Len(Split(v))])
    ELSE SetMin({Order(pd.hosts, t) :
                    t \in {u \in Triples(pd.requests, pd.hosts) :
                              NameOf(<<>>, pd.requests, pd.hosts, u) = v}})

RECURSIVE InOrder(_, _, _)
InOrder(S, res, pd) ==
    IF S = {} THEN <<>>
    ELSE LET v == CHOOSE x \in S :
                      \A y \in S : KeyRank(res, pd, x) <= KeyRank(res, pd, y)
         IN  <<v>> \o InOrder(S \ {v}, res, pd)

decode_solution(res, pd) ==
    LET keys == InOrder(Resolved(res.solution, pd), res, pd)
    IN  [k \in 1..Len(keys) |-> Meeting(keys[k], pd)]


(***************************************************************************)
(* The calls: main() and optimize() of dwave_backend.py and                *)
(* dwave_hybrid_backend.py, main() and solve_qubo() of qaoa_scheduler.py.  *)
(*                                                                         *)
(* pc:  start -> build -> solve -> decode -> return -> done   normal path   *)
(*      except          optimize's  except Exception  (the fallback)       *)
(*      retry           solve_qubo's inner  except Exception               *)
(*      main_except     main's  except Exception                           *)
(*      done, error     the result / the error result was printed          *)
(*      exit            {"error": ...} was printed and the process exited  *)
(*      crashed         an exception left main                             *)
(***************************************************************************)
CallRequestPool ==
    { [id |-> <<"a">>, importance |-> 90, importanceScore |-> 90],
      [id |-> <<"a", US, "b">>, importanceScore |-> 50] }

CallHostPool == { [id |-> <<"c">>, name |-> "C"] }

\* problem_data with any of its keys missing (dwave_backend never reads more
\* of 'constraints' than .get, so its inputs are drawn with the key present)
CallInputs(s) ==
    LET full == {[requests |-> rs, hosts |-> hs, constraints |-> <<>>] :
                    rs \in ListsOf(CallRequestPool, MaxRequests),
                    hs \in ListsOf(CallHostPool, MaxHosts)}
        keysets == IF s = "hybrid" THEN SUBSET {"requests", "hosts", "constraints"}
                   ELSE {K \cup {"constraints"} : K \in SUBSET {"requests", "hosts"}}
    IN  {[k \in K |-> pd[k]] : pd \in full, K \in keysets}

Init ==
    /\ sched \in {"dwave", "hybrid", "qaoa"}
    /\ problem_data \in CallInputs(sched)
    /\ samplers \in IF sched = "dwave" THEN {{"sampler"}}
                    ELSE IF sched = "hybrid" THEN {{}, {"hybrid_sampler", "cqm_sampler"}}
                    ELSE {{}}
    /\ input \in IF sched = "hybrid" THEN {"malformed", "json"}
                 ELSE {"missing", "malformed", "json"}
    /\ input # "json" => problem_data = <<>>
    /\ pc = "start"
    /\ bqm = NoValue
    /\ sample = <<>>
    /\ result = NoValue
    /\ rerun = NoValue
    /\ exc = "none"
    /\ solves = <<>>
    /\ fallbacks = 0

\* main, up to scheduler.optimize / scheduler.solve_qubo: the input file named
\* on the command line (dwave_backend, qaoa_scheduler) or the line on stdin
\* (dwave_hybrid_backend) is read and parsed
ReadInput ==
    /\ pc = "start"
    /\ IF input = "missing"
       THEN \* print(json.dumps({"error": "No input file"})); sys.exit(1)
            /\ result' = [error |-> "No input file"]
            /\ pc' = "exit"
            /\ UNCHANGED exc
       ELSE IF input = "malformed"
       THEN /\ exc' = "JSONDecodeError"
            /\ pc' = "main_except"
            /\ UNCHANGED result
       ELSE /\ pc' = "build"
            /\ UNCHANGED <<exc, result>>
    /\ UNCHANGED <<sched, problem_data, bqm, sample, solves, fallbacks, samplers, input, rerun>>

\* return self._classical_fallback(problem_data), from optimize
CallFallback ==
    /\ fallbacks' = fallbacks + 1
    /\ IF FallbackRaises(sched, problem_data)
       THEN /\ exc' = "KeyError"
            /\ pc' = "main_except"
            /\ UNCHANGED result
       ELSE /\ result' = classical_fallback(sched, problem_data)
            /\ exc' = "none"
            /\ pc' = "return"

\* DWaveQuantumScheduler.optimize, up to bqm = self._build_bqm(problem_data)
DwaveBuild ==
    /\ pc = "build" /\ sched = "dwave"
    /\ IF "sampler" \notin samplers
       THEN CallFallback /\ UNCHANGED bqm
       ELSE IF BuildRaises(problem_data)
       THEN /\ exc' = "KeyError"
            /\ pc' = "except"
            /\ UNCHANGED <<bqm, result, fallbacks>>
       ELSE /\ bqm' = build_bqm(sched, problem_data)
            /\ pc' = "solve"
            /\ UNCHANGED <<exc, result, fallbacks>>
    /\ UNCHANGED <<sched, problem_data, sample, solves, samplers, input, rerun>>

\* the dict _quantum_solve returns for the best sample
quantum_result(smp) ==
    [ solution |-> smp,
      energy |-> Energy("dwave", problem_data, bqm, Active(smp)),
      status |-> "SUCCESS",
      quantum_backend |-> "dwave_simulated_annealing",
      active_assignments |-> Cardinality(Active(smp)),
      success_rate |-> Rate(Cardinality(Active(smp)), Cardinality(DOMAIN smp)) ]

\* a size test that sends every model to the hybrid solver
selected_strategy_always_hybrid(model) == "hybrid"

\* if len(bqm.variables) > 5000: _hybrid_solve, else: _quantum_solve
selected_strategy(model) ==
    IF Cardinality(Variables(model)) > hybrid_threshold THEN "hybrid" ELSE "annealing"

\* DWaveQuantumScheduler.optimize, the size test and the solve it selects
DwaveSolve ==
    /\ pc = "solve" /\ sched = "dwave"
    /\ IF selected_strategy(bqm) = "hybrid"
       THEN \* _hybrid_solve: hybrid_sampler is None
            /\ "hybrid_sampler" \notin samplers
            /\ result' = classical_fallback(sched, problem_data)
            /\ fallbacks' = fallbacks + 1
            /\ pc' = "decode"
            /\ UNCHANGED <<exc, solves>>
       ELSE \* _quantum_solve: self.sampler.sample(bqm, ...)
            /\ solves' = Append(solves, "annealing")
            /\ UNCHANGED fallbacks
            /\ \/ \E smp \in SampleSpace(Variables(bqm), MaxCallActive) :
                     /\ result' = quantum_result(smp)
                     /\ pc' = "decode"
                     /\ UNCHANGED exc
               \/ /\ exc' = "SolverError"
                  /\ pc' = "except"
                  /\ UNCHANGED result
    /\ UNCHANGED <<sched, problem_data, bqm, sample, samplers, input, rerun>>

\* DWaveQuantumScheduler.optimize, from _decode_solution to return result
DwaveDecode ==
    /\ pc = "decode" /\ sched = "dwave"
    /\ IF decode_raises(result.solution)
       THEN /\ exc' = "ValueError"
            /\ pc' = "except"
            /\ UNCHANGED result
       ELSE LET schedule == decode_solution(result, problem_data)
            IN  /\ result' =
                     [k \in DOMAIN result \cup {"schedule", "quboStats", "metrics"} |->
                        IF k = "schedule" THEN schedule
                        ELSE IF k = "quboStats"
                        THEN [ totalVariables |-> Cardinality(Variables(bqm)),
                               linearTerms |-> Cardinality(Variables(bqm)),
                               quadraticTerms |-> bqm.num_quadratic,
                               energy |-> result.energy ]
                        ELSE IF k = "metrics"
                        THEN [ scheduledMeetings |-> Len(schedule),
                               totalRequests |-> Len(problem_data.requests),
                               successRate |-> result.success_rate ]
                        ELSE result[k]]
                /\ pc' = "return"
                /\ UNCHANGED exc
    /\ UNCHANGED <<sched, problem_data, bqm, sample, solves, fallbacks, samplers, input, rerun>>

\* optimize's  except Exception:  return self._classical_fallback(problem_data)
OptimizeExcept ==
    /\ pc = "except" /\ sched \in {"dwave", "hybrid"}
    /\ CallFallback
    /\ UNCHANGED <<sched, problem_data, bqm, sample, solves, samplers, input, rerun>>


\* the objective of the CQM: every combination subtracts the request's
\* importanceScore from the coefficient of its variable
cqm_objective(requests, hosts) ==
    LET T == Triples(requests, hosts)
        N(t) == NameOf(XPrefix, requests, hosts, t)
    IN  [v \in {N(t) : t \in T} |->
            0 - SumOver({t \in T : N(t) = v},
                        [t \in T |-> Get(requests[t[1]], "importanceScore", default_importance)])]

\* _build_cqm reads three keys of problem_data
CqmKeyMissing(pd) == ~({"requests", "hosts", "constraints"} \subseteq DOMAIN pd)

\* DWaveHybridScheduler.optimize, up to cqm = self._build_cqm(problem_data).
\* What dimod makes of the expressions and labels _build_cqm hands it (a
\* constraint that is a plain bool, a label used twice) is the library's:
\* the build either raises or returns the model.
HybridBuild ==
    /\ pc = "build" /\ sched = "hybrid"
    /\ IF "hybrid_sampler" \notin samplers
       THEN CallFallback /\ UNCHANGED bqm
       ELSE IF CqmKeyMissing(problem_data)
       THEN /\ exc' = "KeyError"
            /\ pc' = "except"
            /\ UNCHANGED <<bqm, result, fallbacks>>
       ELSE /\ \/ /\ exc' = "ValueError"
                  /\ pc' = "except"
                  /\ UNCHANGED bqm
               \/ /\ bqm' = [ linear |-> cqm_objective(problem_data.requests, problem_data.hosts),
                              num_quadratic |-> 0 ]
                  /\ pc' = "solve"
                  /\ UNCHANGED exc
            /\ UNCHANGED <<result, fallbacks>>
    /\ UNCHANGED <<sched, problem_data, sample, solves, samplers, input, rerun>>

\* the value of the objective at a sample
cqm_energy(smp) == SumOver(Active(smp), bqm.linear)

\* the dict _solve_cqm returns
cqm_result(smp, is_feasible) ==
    [ solution |-> smp,
      energy |-> cqm_energy(smp),
      status |-> IF is_feasible THEN "SUCCESS" ELSE "INFEASIBLE",
      quantum_backend |-> "hybrid_cqm_solver",
      is_feasible |-> is_feasible,
      active_assignments |-> Cardinality(Active(smp)),
      success_rate |-> Rate(Cardinality(Active(smp)), Cardinality(DOMAIN smp)) ]

\* DWaveHybridScheduler.optimize, the solve: cqm_sampler is set whenever
\* hybrid_sampler is, so the solve is _solve_cqm, whose result is returned as
\* it is
HybridSolve ==
    /\ pc = "solve" /\ sched = "hybrid"
    /\ "cqm_sampler" \in samplers
    /\ solves' = Append(solves, "cqm")
    /\ \/ \E smp \in SampleSpace(Variables(bqm), MaxCallActive), is_feasible \in BOOLEAN :
             /\ result' = cqm_result(smp, is_feasible)
             /\ pc' = "return"
             /\ UNCHANGED exc
       \/ /\ exc' = "SolverError"
          /\ pc' = "except"
          /\ UNCHANGED result
    /\ UNCHANGED <<sched, problem_data, bqm, sample, fallbacks, samplers, input, rerun>>

\* build_qubo_from_schedule: one variable "req_<id>" per request, coefficient -1
ReqPrefix == <<"r", "e", "q", US>>

build_qubo_from_schedule(hosts, requests) ==
    [v \in {ReqPrefix \o Get(requests[i], "id", <<>>) : i \in 1..Len(requests)} |-> 0 - 1]

\* qaoa_scheduler.main, from input_data.get to build_qubo_from_schedule
QaoaBuild ==
    /\ pc = "build" /\ sched = "qaoa"
    /\ bqm' = [ linear |-> build_qubo_from_schedule(Get(problem_data, "hosts", <<>>),
                                                    Get(problem_data, "requests", <<>>)),
                num_quadratic |-> 0 ]
    /\ pc' = "solve"
    /\ UNCHANGED <<sched, problem_data, sample, result, exc, solves, fallbacks, samplers, input, rerun>>

\* num_vars > 20: the classical solver is used directly
classical_threshold == 20

\* a retry that runs QAOA again
retry_same_strategy == "qaoa"

\* the solver solve_qubo turns to after QAOA raised
retry_strategy == "classical"

\* solve_qubo, the first solve.  The solution is result.x over the sorted
\* variables, or zeros when there is none (one of the samples); any exception
\* outside the QAOA try is caught at the end and {} is returned.
QaoaSolve ==
    /\ pc = "solve" /\ sched = "qaoa"
    /\ IF Cardinality(Variables(bqm)) > classical_threshold
       THEN /\ solves' = Append(solves, "classical")
            /\ \/ \E smp \in SampleSpace(Variables(bqm), MaxCallActive) :
                     sample' = smp /\ pc' = "return" /\ UNCHANGED exc
               \/ sample' = <<>> /\ pc' = "return" /\ exc' = "SolverError"
       ELSE /\ solves' = Append(solves, "qaoa")
            /\ \/ \E smp \in SampleSpace(Variables(bqm), MaxCallActive) :
                     sample' = smp /\ pc' = "return" /\ UNCHANGED exc
               \/ pc' = "retry" /\ exc' = "SolverError" /\ UNCHANGED sample
    /\ UNCHANGED <<sched, problem_data, bqm, result, fallbacks, samplers, input, rerun>>

\* solve_qubo,  except Exception as qaoa_error:  the classical solver is run on
\* the same program; if it raises too, the outer except returns {}
QaoaRetry ==
    /\ pc = "retry" /\ sched = "qaoa"
    /\ solves' = Append(solves, retry_strategy)
    /\ \/ \E smp \in SampleSpace(Variables(bqm), MaxCallActive) :
             sample' = smp /\ pc' = "return" /\ exc' = "none"
       \/ sample' = <<>> /\ pc' = "return" /\ UNCHANGED exc
    /\ UNCHANGED <<sched, problem_data, bqm, result, fallbacks, samplers, input, rerun>>

\* what json.dumps cannot serialise: _solve_cqm puts the sampler's sample view
\* into 'solution' as it is, and whether that view serialises is the library's
MayNotSerialise ==
    sched = "hybrid" /\ result.quantum_backend = "hybrid_cqm_solver"

\* main: print(json.dumps(result)), or print(json.dumps(solution)) in
\* qaoa_scheduler
MainPrint ==
    /\ pc = "return"
    /\ \/ pc' = "done" /\ UNCHANGED exc
       \/ /\ sched # "qaoa" /\ MayNotSerialise
          /\ exc' = "TypeError"
          /\ pc' = "main_except"
    /\ UNCHANGED <<sched, problem_data, bqm, sample, result, solves, fallbacks, samplers, input, rerun>>

\* the energy of the error result of dwave_backend.main
error_energy == 999999

\* an error result that claims to be a fallback result
error_result_as_fallback(s, e) ==
    [ solution |-> <<>>,
      energy |-> IF s = "dwave" THEN error_energy ELSE "inf",
      status |-> "FALLBACK",
      error |-> e,
      quantum_backend |-> "classical_greedy" ]

\* the error result of main
error_result(s, e) ==
    [ solution |-> <<>>,
      energy |-> IF s = "dwave" THEN error_energy ELSE "inf",
      status |-> "ERROR",
      error |-> e,
      quantum_backend |-> "error" ]

\* a handler that lets KeyError through
MainCatchesNoKeyError(e) == e # "KeyError"

\* main's handler is  except Exception:  it catches every error of the call
MainCatches(e) == TRUE

\* main,  except Exception as e:  dwave_backend and dwave_hybrid_backend print
\* the error result; qaoa_scheduler prints {"error": ...} and exits with 1
MainExcept ==
    /\ pc = "main_except"
    /\ IF ~MainCatches(exc)
       THEN pc' = "crashed" /\ UNCHANGED <<result, exc>>
       ELSE IF sched = "qaoa"
       THEN /\ result' = [error |-> exc]
            /\ pc' = "exit"
            /\ exc' = "none"
       ELSE /\ result' = error_result(sched, exc)
            /\ pc' = "error"
            /\ exc' = "none"
    /\ UNCHANGED <<sched, problem_data, bqm, sample, solves, fallbacks, samplers, input, rerun>>

Next ==
    \/ ReadInput
    \/ DwaveBuild
    \/ DwaveSolve
    \/ DwaveDecode
    \/ OptimizeExcept
    \/ HybridBuild
    \/ HybridSolve
    \/ QaoaBuild
    \/ QaoaSolve
    \/ QaoaRetry
    \/ MainPrint
    \/ MainExcept

Spec == Init /\ [][Next]_vars

\* the control points at which a call has ended: the result was printed
\* (done), the error result was printed (error), the process exited with 1
\* after printing {"error": ...} (exit), or died of an uncaught exception
Final == {"done", "error", "exit", "crashed"}

ControlPoints ==
    {"start", "build", "solve", "decode", "except", "retry", "return", "main_except"}
        \cup Final

\* the call leaves the control point it is at
Advance == pc \notin Final /\ pc' \in ControlPoints \ {pc}

\* A call is one sequential process and every step of it ends (a library call
\* returns or raises): a call that has not ended leaves its control point.
\* Every step of Next changes pc, and Next is enabled wherever pc is not
\* Final, so this is weak fairness of Next.
FairSpec == Spec /\ WF_pc(Advance)

(***************************************************************************)
(* Properties of the calls.                                                *)
(***************************************************************************)
\* the spec is valid: requests and hosts are present
ValidSpec == input = "json" /\ {"requests", "hosts"} \subseteq DOMAIN problem_data

\* the spec lacks requests or hosts
InvalidSpec == input = "json" /\ ~({"requests", "hosts"} \subseteq DOMAIN problem_data)

\* C2: whenever the spec is valid and the solve path failed (the fallback was
\* called), optimize returns a result with status FALLBACK that contains a
\* schedule.
C2_FallbackResultHasSchedule ==
    (sched = "dwave" /\ ValidSpec /\ fallbacks > 0 /\ pc \in {"return", "done"}) =>
        (result.status = "FALLBACK" /\ "schedule" \in DOMAIN result)

\* C3: the decode step never fails: a call that is at decode steps to the
\* return of the result, never to the except clause.
C3_DecodeNeverFails == [][pc = "decode" => pc' = "return"]_vars

\* C4: every call of dwave_backend / dwave_hybrid_backend that has an input
\* eventually stands at a terminal state (done or error) where a result with a
\* status has been printed; no call ends with an unhandled exception.
C4_CallEndsWithResult ==
    (input # "missing" /\ sched \in {"dwave", "hybrid"}) ~>
        (pc \in {"done", "error"} /\ "status" \in DOMAIN result)

\* a call that ran to its end through the solver and the decoder
C4_Witness ==
    /\ sched = "dwave" /\ pc = "done"
    /\ result.status = "SUCCESS"
    /\ Len(result.schedule) = 1

\* C5 (as claimed): when the spec lacks requests or hosts the call goes to the
\* error state (status ERROR, no schedule) without ever invoking the fallback.
C5_InvalidSpecSkipsFallback ==
    (InvalidSpec /\ sched = "dwave") =>
        /\ fallbacks = 0
        /\ pc \in {"done", "error"} =>
              (pc = "error" /\ result.status = "ERROR" /\ "schedule" \notin DOMAIN result)

\* C5 (amended): when the spec lacks requests or hosts no solver is invoked
\* and the call never returns a result from optimize; it ends in the error
\* state with status ERROR, an empty solution and no schedule, after the
\* fallback was invoked exactly once and raised KeyError itself.
C5_InvalidSpecEndsInError ==
    (InvalidSpec /\ sched \in {"dwave", "hybrid"}) =>
        /\ solves = <<>>
        /\ fallbacks <= 1
        /\ pc \notin {"solve", "decode", "return", "done", "crashed"}
        /\ pc = "main_except" => (fallbacks = 1 /\ exc = "KeyError")
        /\ pc = "error" =>
              /\ result.status = "ERROR"
              /\ result.solution = <<>>
              /\ result.error = "KeyError"
              /\ "schedule" \notin DOMAIN result
              /\ fallbacks = 1

\* a call on a spec without hosts that ended in the error state
C5_Witness ==
    /\ InvalidSpec /\ sched = "dwave"
    /\ "requests" \in DOMAIN problem_data
    /\ pc = "error"
    /\ fallbacks = 1

C7_SolveReturnsCompleteSample ==
    /\ (sched = "qaoa" /\ pc = "return") => DOMAIN sample = Variables(bqm)
    /\ (sched = "dwave" /\ pc = "decode") => DOMAIN result.solution = Variables(bqm)


(***************************************************************************)
(* Properties of the built model, continued.                               *)
(***************************************************************************)
\* two combinations share a request, or share a (host, slot)
SameFamily(t1, t2) ==
    \/ t1[1] = t2[1]
    \/ t1[2] = t2[2] /\ t1[3] = t2[3]

\* C11: in the built model the quadratic keys are exactly the pairs of
\* distinct variables that share a request or share a (host, slot): the
\* variables of two combinations are a key if and only if the combinations
\* share a request or a (host, slot).
C11_QuadraticKeysExact ==
    pc = "built" =>
        LET requests == problem_data.requests
            hosts == problem_data.hosts
            T == Triples(requests, hosts)
            N == [t \in T |-> NameOf(Prefix(sched), requests, hosts, t)]
            keys == QuadraticKeys(sched, problem_data)
        IN  \A t1 \in T, t2 \in T :
                t1 # t2 => (({N[t1], N[t2]} \in keys) <=> SameFamily(t1, t2))


(***************************************************************************)
(* Properties of the fallbacks, continued.                                 *)
(***************************************************************************)
\* the importance score a request carries in the input: the JSON field is
\* importanceScore or importance
ImportanceOf(request) ==
    Get(request, "importanceScore", Get(request, "importance", default_importance))

\* the requests that have a variable with value 1 in the fallback's solution
Scheduled ==
    {i \in 1..Len(problem_data.requests) :
        \E t \in Triples(problem_data.requests, problem_data.hosts) :
            /\ t[1] = i
            /\ result.solution[NameOf(Prefix(sched), problem_data.requests,
                                      problem_data.hosts, t)] = 1}

\* C12: the energy of the fallback result is minus the sum of the importance
\* scores of exactly the requests the fallback scheduled (-140 for r1 with
\* importance 90, r2 with importance 50 and one host).
C12_FallbackEnergy ==
    (pc = "returned" /\ sched \in {"dwave", "hybrid"}) =>
        result.energy =
            0 - SumOver(Scheduled,
                        [i \in 1..Len(problem_data.requests) |->
                            ImportanceOf(problem_data.requests[i])])


(***************************************************************************)
(* The fallback called twice on one input.                                 *)
(***************************************************************************)
\* a second call of _classical_fallback with the same problem_data
RunAgain ==
    /\ pc = "returned"
    /\ rerun' = classical_fallback(sched, problem_data)
    /\ fallbacks' = fallbacks + 1
    /\ pc' = "rerun"
    /\ UNCHANGED <<sched, problem_data, bqm, sample, result, exc, solves, samplers, input>>

NextRerun == RunFallback \/ RunAgain

SpecRerun == InitFallback /\ [][NextRerun]_vars

InitDecode == InitBuild /\ sched = "dwave"

\* what a call of _decode_solution lets its caller see: the list it returns
\* and the one line it prints, "Created schedule with N meetings"
decoded(res, pd) ==
    LET schedule == decode_solution(res, pd)
    IN  [schedule |-> schedule, diagnostics |-> [created |-> Len(schedule)]]

\* schedule = self._decode_solution(best_sample, problem_data)
DecodeSample ==
    /\ pc = "sampled"
    /\ \/ /\ decode_raises(sample)
          /\ exc' = "ValueError"
          /\ pc' = "raised"
          /\ UNCHANGED result
       \/ /\ ~decode_raises(sample)
          /\ result' = decoded([solution |-> sample, status |-> "SUCCESS"], problem_data)
          /\ pc' = "decoded"
          /\ UNCHANGED exc
    /\ UNCHANGED <<sched, problem_data, bqm, sample, solves, fallbacks, samplers, input, rerun>>

NextDecode == BuildModel \/ DrawSample \/ DecodeSample

SpecDecode == InitDecode /\ [][NextDecode]_vars

\* the combinations whose variable is active in the sample
ActiveTriples(smp, pd) ==
    {t \in Triples(pd.requests, pd.hosts) :
        NameOf(<<>>, pd.requests, pd.hosts, t) \in Active(smp)}

\* S is an assignment the sample encodes: one combination per request, no
\* (host, slot) twice, and the active variables are exactly its names
Encodes(S, smp, pd) ==
    /\ {t[1] : t \in S} = 1..Len(pd.requests)
    /\ \A t1 \in S, t2 \in S :
          t1 # t2 => (t1[1] # t2[1] /\ <<t1[2], t1[3]>> # <<t2[2], t2[3]>>)
    /\ {NameOf(<<>>, pd.requests, pd.hosts, t) : t \in S} = Active(smp)
    /\ Cardinality(Active(smp)) = Len(pd.requests)

\* the meeting of combination t is entry k of the schedule
IsMeetingOf(m, t, pd) ==
    /\ m.requestId = pd.requests[t[1]].id
    /\ m.hostId = pd.hosts[t[2]].id
    /\ m.slot = t[3]
    /\ m.date = meeting_date(t[3] \div slots_per_day)
    /\ m.startTime = time_mapping[(t[3] % slots_per_day) + 1][1]
    /\ m.endTime = time_mapping[(t[3] % slots_per_day) + 1][2]

\* C14: decoding a sample with exactly one active variable per request and no
\* (host, slot) used twice yields exactly n meetings, one per request, each
\* with the request, host, slot, date and times of its variable.
C14_DecodeOnePerRequest ==
    pc \in {"decoded", "raised"} =>
        \A S \in SUBSET ActiveTriples(sample, problem_data) :
            Encodes(S, sample, problem_data) =>
                /\ pc = "decoded"
                /\ Len(result.schedule) = Len(problem_data.requests)
                /\ \A t \in S :
                      \E k \in 1..Len(result.schedule) :
                          IsMeetingOf(result.schedule[k], t, problem_data)

\* requests or hosts of a valid spec is the empty list
EmptySpec ==
    /\ ValidSpec
    /\ (problem_data.requests = <<>> \/ problem_data.hosts = <<>>)

\* C15: when requests or hosts is empty, the call raises no exception and
\* returns a result with status SUCCESS or FALLBACK, a schedule that is present
\* and empty, and success_rate 0, whether the solve succeeded or failed.
C15_EmptyInputResult ==
    (sched = "dwave" /\ EmptySpec) =>
        /\ pc \notin {"main_except", "error", "exit", "crashed"}
        /\ pc \in {"return", "done"} =>
              /\ result.status \in {"SUCCESS", "FALLBACK"}
              /\ "schedule" \in DOMAIN result
              /\ result.schedule = <<>>
              /\ result.success_rate = 0

(***************************************************************************)
(* The solve step on any sample of the built model: what _quantum_solve    *)
(* and _solve_cqm report for it, and what optimize returns.                *)
(***************************************************************************)
\* at most one host, so that two active variables always conflict
InitSolve ==
    /\ InitBuild
    /\ Len(problem_data.hosts) <= 1
    /\ \A j \in 1..Len(problem_data.hosts) : problem_data.hosts[j].id = <<"c">>

\* _quantum_solve, from best_sample = sampleset.first.sample to the return
QuantumSolveReturn ==
    /\ pc = "sampled" /\ sched = "dwave"
    /\ result' = quantum_result(sample)
    /\ pc' = "decode"
    /\ UNCHANGED <<sched, problem_data, bqm, sample, exc, solves, fallbacks, samplers, input, rerun>>

\* what row.is_feasible can be for a sample: False when a request or a
\* (host, slot) has two active variables, either value otherwise (the CQM has
\* the working-hours constraints as well)
row_is_feasible(smp) ==
    IF Feasible(sched, problem_data, Active(smp)) THEN BOOLEAN ELSE {FALSE}

\* _solve_cqm, from feasible_sampleset = sampleset.filter(...) to the return
CqmSolveReturn ==
    /\ pc = "sampled" /\ sched = "hybrid"
    /\ \E is_feasible \in row_is_feasible(sample) :
          result' = cqm_result(sample, is_feasible)
    /\ pc' = "return"
    /\ UNCHANGED <<sched, problem_data, bqm, sample, exc, solves, fallbacks, samplers, input, rerun>>

NextSolve ==
    \/ BuildModel
    \/ DrawSample
    \/ QuantumSolveReturn
    \/ CqmSolveReturn
    \/ DwaveDecode
    \/ OptimizeExcept

SpecSolve == InitSolve /\ [][NextSolve]_vars

\* the sample the solver returned has a request or a (host, slot) with two
\* active variables
ViolatesConstraint == ~Feasible(sched, problem_data, Active(sample))

\* C16: a sample that violates a constraint is reported with status
\* INFEASIBLE, never SUCCESS, and the result still holds the schedule decoded
\* from it.
C16_ViolationIsInfeasible ==
    (pc = "return" /\ fallbacks = 0 /\ ViolatesConstraint) =>
        /\ result.status = "INFEASIBLE"
        /\ "schedule" \in DOMAIN result

(***************************************************************************)
(* The decoder on any dict of names, well-formed or not.                   *)
(***************************************************************************)
\* names of one, two, three and four components, and the empty name
NamePool ==
    { <<>>,
      <<"a">>,
      <<"a", US, "c">>,
      <<"a", US, "c", US, "0">>,
      <<"a", US, "c", US, "9">>,
      <<"b", US, "c", US, "0">>,
      <<"a", US, "b", US, "c", US, "0">> }

\* two requests whose ids the decoder can parse
DecodeRequestPool ==
    { [id |-> <<"a">>, importance |-> 90, topic |-> "T"],
      [id |-> <<"b">>] }

\* the values of a sample's entries: 0, 1, and 2 for a value that is above
\* 0.5 and is not 1
SampleValues == {0, 1, 2}

InitMalformed ==
    /\ sched = "dwave"
    /\ problem_data \in {[requests |-> rs, hosts |-> hs] :
                            rs \in ListsOf(DecodeRequestPool, MaxRequests),
                            hs \in ListsOf(CallHostPool, MaxHosts)}
    /\ sample \in [NamePool -> SampleValues]
    /\ input = "json"
    /\ pc = "sampled"
    /\ bqm = NoValue
    /\ result = NoValue
    /\ rerun = NoValue
    /\ exc = "none"
    /\ solves = <<>>
    /\ fallbacks = 0
    /\ samplers = {}

NextMalformed == DecodeSample

SpecMalformed == InitMalformed /\ [][NextMalformed]_vars

\* the active entries whose name has fewer than 3 components
Malformed(solution) ==
    {v \in DOMAIN solution : solution[v] = 1 /\ Len(Split(v)) < 3}

\* C17: an active variable with fewer than 3 components is skipped, yields no
\* meeting, and adds one to an `unparseable` counter: after decoding, the
\* diagnostics give the number of skipped malformed entries.
C17_UnparseableCounted ==
    (pc = "decoded" /\ Malformed(sample) # {}) =>
        /\ Len(result.schedule) <= Cardinality(Active(sample) \ Malformed(sample))
        /\ "unparseable" \in DOMAIN result.diagnostics
        /\ result.diagnostics.unparseable = Cardinality(Malformed(sample))

\* C18: in every result a scheduler returns, the status is one of SUCCESS,
\* FALLBACK, INFEASIBLE, ERROR.
C18_StatusInVocabulary ==
    pc = "returned" => result.status \in {"SUCCESS", "FALLBACK", "INFEASIBLE", "ERROR"}

\* C19: the fallback gives each request, in sorted order, the first (host,
\* slot) pair not yet occupied in the order hosts (outer), slots 0..55 (inner):
\* the k-th sorted request gets the k-th pair of that order, so with two hosts
\* the second request gets (first host, slot 1), not (second host, slot 0).
C19_CanonicalOrder ==
    (pc = "returned" /\ sched \in {"dwave", "hybrid"}) =>
        LET sorted == sorted_requests(problem_data.requests)
            hosts == problem_data.hosts
        IN  \A k \in 1..Len(sorted) :
                k <= Len(hosts) * num_slots =>
                    result.solution[Prefix(sched) \o
                        VarName(sorted[k].id,
                                hosts[((k - 1) \div num_slots) + 1].id,
                                (k - 1) % num_slots)] = 1

(***************************************************************************)
(* The fallbacks on inputs with about as many requests as one host has     *)
(* slots.                                                                  *)
(***************************************************************************)
\* n requests with ids "1" .. "n", the later the more important
CrowdRequests(n) == [i \in 1..n |-> [id |-> Str(i), importanceScore |-> i]]

\* few requests, and one fewer, as many and one more than a host has slots
CrowdSizes == {0, 1, 2, num_slots - 1, num_slots, num_slots + 1}

InitCrowd ==
    /\ sched \in {"dwave", "hybrid"}
    /\ problem_data \in {[requests |-> CrowdRequests(n), hosts |-> hs] :
                            n \in CrowdSizes,
                            hs \in ListsOf(FallbackHostPool, MaxHosts)}
    /\ input = "json"
    /\ pc = "fallback"
    /\ bqm = NoValue
    /\ sample = <<>>
    /\ result = NoValue
    /\ rerun = NoValue
    /\ exc = "none"
    /\ solves = <<>>
    /\ fallbacks = 0
    /\ samplers = {}

SpecCrowd == InitCrowd /\ [][NextFallback]_vars

\* C20: the fallback leaves a request unscheduled only when all m*56 (host,
\* slot) pairs are occupied: for n requests and m hosts it schedules exactly
\* min(n, m*56) requests.
C20_SchedulesMin ==
    (pc = "returned" /\ sched \in {"dwave", "hybrid"}) =>
        LET n == Len(problem_data.requests)
            pairs == Len(problem_data.hosts) * num_slots
            scheduled == Cardinality(Active(result.solution))
        IN  /\ scheduled = IF n < pairs THEN n ELSE pairs
            /\ result.active_assignments = scheduled

\* the request carries an importance field, under either of its two names
HasImportance(request) == {"importance", "importanceScore"} \cap DOMAIN request # {}

\* C21: the fallback processes the requests in descending order of their
\* importance score (the importance / importanceScore field), requests of equal
\* score in input order: a request of strictly higher importance is never
\* processed after one of lower importance.
C21_DescendingImportance ==
    (pc = "returned" /\ sched \in {"dwave", "hybrid"}) =>
        LET requests == problem_data.requests
            sorted == sorted_requests(requests)
            At(k) == CHOOSE i \in 1..Len(requests) : requests[i].id = sorted[k].id
        IN  \A k \in 1..Len(sorted), l \in 1..Len(sorted) :
                (k < l /\ HasImportance(sorted[k]) /\ HasImportance(sorted[l])) =>
                    /\ ImportanceOf(sorted[k]) >= ImportanceOf(sorted[l])
                    /\ ImportanceOf(sorted[k]) = ImportanceOf(sorted[l]) => At(k) < At(l)

(***************************************************************************)
(* optimize of dwave_backend on models on either side of the size test:    *)
(* inputs of at most two requests and one host, and inputs of 90 requests  *)
(* and one host (90 * 56 = 5040 variables).                                *)
(***************************************************************************)
\* 90 requests whose ids hold an underscore: "1_x" .. "90_x"
CrowdRequestsUS(n) ==
    [i \in 1..n |-> [id |-> Str(i) \o <<US, "x">>, importanceScore |-> i]]

\* the least number of (request, host) pairs whose model passes the size test
LargePairs == (hybrid_threshold \div num_slots) + 1

RouteInputs ==
    {[requests |-> rs, hosts |-> hs, constraints |-> <<>>] :
        rs \in ListsOf(CallRequestPool, MaxRequests)
                 \cup {CrowdRequests(LargePairs), CrowdRequestsUS(LargePairs)},
        hs \in ListsOf(CallHostPool, MaxHosts)}

InitRoute ==
    /\ sched = "dwave"
    /\ problem_data \in RouteInputs
    /\ samplers = {"sampler"}
    /\ input = "json"
    /\ pc = "build"
    /\ bqm = NoValue
    /\ sample = <<>>
    /\ result = NoValue
    /\ rerun = NoValue
    /\ exc = "none"
    /\ solves = <<>>
    /\ fallbacks = 0

NextRoute == DwaveBuild \/ DwaveSolve \/ DwaveDecode \/ OptimizeExcept

SpecRoute == InitRoute /\ [][NextRoute]_vars

\* C22: optimize routes the model to the hybrid strategy exactly when it has
\* more than 5000 variables and to annealing otherwise; when the selected
\* strategy is unavailable (the hybrid one: no solver is invoked) or raises
\* (the step from except), the call goes to the greedy fallback and invokes
\* no other solver.
C22_Routing ==
    [][/\ (pc = "solve" /\ sched = "dwave") =>
            IF Cardinality(Variables(bqm)) > hybrid_threshold
            THEN /\ solves' = solves
                 /\ fallbacks' = fallbacks + 1
                 /\ result'.status = "FALLBACK"
            ELSE /\ solves' = Append(solves, "annealing")
                 /\ fallbacks' = fallbacks
                 /\ \/ pc' = "decode" /\ result'.status = "SUCCESS"
                    \/ pc' = "except"
       /\ (pc = "except" /\ sched = "dwave") =>
            /\ solves' = solves
            /\ fallbacks' = fallbacks + 1
            /\ pc' = "return"
            /\ result'.status = "FALLBACK"]_vars

\* a model of more than 5000 variables went to the hybrid strategy, which
\* called the fallback
C22_Witness ==
    /\ pc = "decode"
    /\ Cardinality(Variables(bqm)) > hybrid_threshold
    /\ solves = <<>>
    /\ fallbacks = 1

\* the combinations written under the name v
CombinationsNamed(v, pd) ==
    {t \in Triples(pd.requests, pd.hosts) : NameOf(<<>>, pd.requests, pd.hosts, t) = v}

\* 1 when the builder gives combination t the preferred-date bonus, else 0
PreferredBonus(t, pd) ==
    IF Get(pd.requests[t[1]], "preferredDates", <<>>) # <<>> /\ t[3] < preferred_slots
    THEN 1 ELSE 0

\* -(importance + expertise match * 20 + preferred bonus * 10) of combination t
ObjectiveWeight(t, pd) ==
    -(Get(pd.requests[t[1]], "importance", default_importance)
        + check_expertise_match(pd.requests[t[1]], pd.hosts[t[2]]) * expertise_weight
        + PreferredBonus(t, pd) * preferred_bonus)

\* C23 as stated: the linear weight of every variable (r,h,s) is
\* -(importance + expertiseBonus * W_EXPERTISE + preferredBonus * W_PREFERRED)
\* and nothing else.
C23_LinearWeightOnly ==
    (pc = "built" /\ sched = "dwave") =>
        \A t \in Triples(problem_data.requests, problem_data.hosts) :
            bqm.linear[NameOf(<<>>, problem_data.requests, problem_data.hosts, t)]
                = ObjectiveWeight(t, problem_data)

\* C23 amended: the linear weight of a variable is the reward
\* -(importance + expertise match * 20) of the last combination written under
\* its name, minus 500 (the linear part of the one-hot penalty) for every
\* combination that has the name, minus 10 for each of them that gets the
\* preferred-date bonus; for a name of one combination (r,h,s) that is
\* -(importance + expertise match * 20 + preferred bonus * 10) - 500.
C23_LinearWeightWithPenalty ==
    (pc = "built" /\ sched = "dwave") =>
        \A v \in Variables(bqm) :
            LET S == CombinationsNamed(v, problem_data)
                last == CHOOSE t \in S :
                            \A u \in S : Order(problem_data.hosts, u) <= Order(problem_data.hosts, t)
                bonuses == Cardinality({t \in S : PreferredBonus(t, problem_data) = 1})
            IN  /\ bqm.linear[v] =
                      ObjectiveWeight(last, problem_data)
                        + PreferredBonus(last, problem_data) * preferred_bonus
                        - penalty_multiple_assignments * Cardinality(S)
                        - preferred_bonus * bonuses
                /\ Cardinality(S) = 1 =>
                      bqm.linear[v] = ObjectiveWeight(last, problem_data)
                                        - penalty_multiple_assignments

\* a model with a variable of one combination that has an expertise match and
\* the preferred-date bonus
C23_Witness ==
    /\ pc = "built" /\ sched = "dwave"
    /\ \E t \in Triples(problem_data.requests, problem_data.hosts) :
          /\ Cardinality(CombinationsNamed(
                NameOf(<<>>, problem_data.requests, problem_data.hosts, t), problem_data)) = 1
          /\ check_expertise_match(problem_data.requests[t[1]], problem_data.hosts[t[2]]) = 2
          /\ PreferredBonus(t, problem_data) = 1

\* slot s falls on one of the request's preferred dates
InPreferredWindow(request, s) ==
    LET dates == Get(request, "preferredDates", <<>>)
    IN  \E k \in 1..Len(dates) : dates[k] = meeting_date(s \div slots_per_day)

\* C24: the builder gives variable (r,h,s) the preferred-date bonus only when
\* slot s falls on a date in r's preferredDates, and no bonus on every other
\* slot of r.
C24_BonusOnlyInWindow ==
    (pc = "built" /\ sched = "dwave") =>
        \A t \in Triples(problem_data.requests, problem_data.hosts) :
            LET v == NameOf(<<>>, problem_data.requests, problem_data.hosts, t)
                request == problem_data.requests[t[1]]
                host == problem_data.hosts[t[2]]
            IN  Cardinality(CombinationsNamed(v, problem_data)) = 1 =>
                    bqm.linear[v] =
                        dwave_reward(request, host) - penalty_multiple_assignments
                          - (IF InPreferredWindow(request, t[3]) THEN preferred_bonus ELSE 0)

\* the sample with every value above 0.5 made 1 and every other value 0
Thresholded(smp) == [v \in DOMAIN smp |-> IF 2 * smp[v] > 1 THEN 1 ELSE 0]

\* C25: the decoder treats a variable as active exactly when its value is
\* greater than 0.5: every such variable that resolves to a known request and
\* host yields a meeting, and no variable of value 0.5 or less does.
C25_ActiveAboveHalf ==
    pc = "decoded" =>
        {<<result.schedule[k].requestId, result.schedule[k].hostId, result.schedule[k].slot>> :
            k \in 1..Len(result.schedule)}
          = {<<Split(v)[1], Split(v)[2], ParseInt(Split(v)[3])>> :
                v \in Resolved(Thresholded(sample), problem_data)}

\* the (date, startTime) the decoder gives slot s
SlotKey(s) == <<meeting_date(s \div slots_per_day), time_mapping[(s % slots_per_day) + 1][1]>>

\* C26: the decoder's slot mapping is total and invertible on slots 0..55:
\* slot s maps to (15 November 2025 + s div 8 days, entry s mod 8 of the time
\* table), two distinct slots never map to the same (date, startTime), and
\* day * 8 + time index gives back the slot of the builder's variable.
C26_SlotMappingInvertible ==
    (pc = "return" /\ "schedule" \in DOMAIN result) =>
        /\ \A s1 \in 0..(num_slots - 1), s2 \in 0..(num_slots - 1) :
              s1 # s2 => SlotKey(s1) # SlotKey(s2)
        /\ \A k \in 1..Len(result.schedule) :
              LET m == result.schedule[k]
                  day == m.date[3] - base_day
                  index == CHOOSE i \in 1..Len(time_mapping) : time_mapping[i][1] = m.startTime
              IN  /\ m.slot \in 0..(num_slots - 1)
                  /\ m.date = <<2025, 11, base_day + (m.slot \div 8)>>
                  /\ m.startTime = time_mapping[(m.slot % 8) + 1][1]
                  /\ m.endTime = time_mapping[(m.slot % 8) + 1][2]
                  /\ day * 8 + (index - 1) = m.slot
                  /\ VarName(m.requestId, m.hostId, m.slot) \in Active(result.solution)

\* a decoded schedule that uses every slot from 0 to 55
C26_Witness ==
    /\ pc = "return"
    /\ "schedule" \in DOMAIN result
    /\ {result.schedule[k].slot : k \in 1..Len(result.schedule)} = 0..(num_slots - 1)

\* the active entries of at least 3 parts whose first two parts are the ids
\* of a request and of a host
ResolvableActive(smp, pd) ==
    {v \in DOMAIN smp :
        /\ smp[v] = 1
        /\ Len(Split(v)) >= 3
        /\ \E i \in 1..Len(pd.requests) : pd.requests[i].id = Split(v)[1]
        /\ \E j \in 1..Len(pd.hosts) : pd.hosts[j].id = Split(v)[2]}

\* C27: the decoder makes no feasibility check: when two active variables
\* share a host and slot, or a request, it emits a meeting for each of them;
\* the schedule has as many meetings as there are active variables that
\* resolve to a known request and host.
C27_NoFeasibilityCheck ==
    /\ pc = "decoded" =>
        /\ Len(result.schedule) = Cardinality(ResolvableActive(sample, problem_data))
        /\ \A v \in ResolvableActive(sample, problem_data) :
              \E k \in 1..Len(result.schedule) :
                  /\ result.schedule[k].requestId = Split(v)[1]
                  /\ result.schedule[k].hostId = Split(v)[2]
                  /\ result.schedule[k].slot = ParseInt(Split(v)[3])
    \* the decoder gives up on a sample only for a slot part that is no number
    /\ pc = "raised" =>
        \E v \in DOMAIN sample :
            sample[v] = 1 /\ Len(Split(v)) >= 3 /\ ~IsInt(Split(v)[3])

\* a decoded schedule with two meetings of one host and slot and two meetings
\* of one request
C27_Witness ==
    /\ pc = "decoded"
    /\ \E k \in 1..Len(result.schedule), l \in 1..Len(result.schedule) :
          /\ result.schedule[k].requestId # result.schedule[l].requestId
          /\ result.schedule[k].hostId = result.schedule[l].hostId
          /\ result.schedule[k].slot = result.schedule[l].slot
    /\ \E k \in 1..Len(result.schedule), l \in 1..Len(result.schedule) :
          /\ k # l
          /\ result.schedule[k].requestId = result.schedule[l].requestId

\* the variables of a request that a fallback result holds at 1
ActiveOf(i, s, pd, res) ==
    {t \in Triples(pd.requests, pd.hosts) :
        /\ t[1] = i
        /\ NameOf(Prefix(s), pd.requests, pd.hosts, t) \in DOMAIN res.solution
        /\ res.solution[NameOf(Prefix(s), pd.requests, pd.hosts, t)] = 1}

\* C28: in the result of the D-Wave and of the hybrid fallback each request
\* has at most one variable at 1, every variable of Requests x Hosts x 0..55
\* has the value 0 or 1, and active_assignments is the number of entries of
\* the assignment that are 1.
C28_FallbackResultShape ==
    (pc = "returned" /\ sched \in {"dwave", "hybrid"}) =>
        /\ \A i \in 1..Len(problem_data.requests) :
              Cardinality(ActiveOf(i, sched, problem_data, result)) <= 1
        /\ \A t \in Triples(problem_data.requests, problem_data.hosts) :
              LET v == NameOf(Prefix(sched), problem_data.requests, problem_data.hosts, t)
              IN  v \in DOMAIN result.solution /\ result.solution[v] \in {0, 1}
        /\ result.active_assignments =
              Cardinality({v \in DOMAIN result.solution : result.solution[v] = 1})

\* C29: for a model of more than 5000 variables optimize of
\* DWaveQuantumScheduler runs no solver and returns status FALLBACK, and the
\* result it returns has been through the decoder: it carries schedule,
\* quboStats and metrics.
C29_LargeProblemDecodedFallback ==
    (sched = "dwave" /\ pc = "return" /\ bqm # NoValue
        /\ Cardinality(Variables(bqm)) > hybrid_threshold) =>
        /\ solves = <<>>
        /\ result.status = "FALLBACK"
        /\ {"schedule", "quboStats", "metrics"} \subseteq DOMAIN result

(***************************************************************************)
(* DWaveHybridScheduler._build_cqm, constraint 3 (working hours).          *)
(***************************************************************************)
working_start == 9
working_end == 17

NoWorkPrefix == <<"n", "o", US, "w", "o", "r", "k", US>>

\* slot = day * 8 + min(hour - working_start, 7)
no_work_slot(day, hour) ==
    day * 8 + (IF hour - working_start < 7 THEN hour - working_start ELSE 7)

\* the calls cqm.add_constraint(constraint == 0, label=...) the three loops
\* make, each with its place in the order of the loops
no_work_calls(hosts) ==
    { [ host |-> c[1], day |-> c[2], hour |-> c[3],
        slot |-> no_work_slot(c[2], c[3]),
        label |-> NoWorkPrefix \o hosts[c[1]].id \o <<US>> \o Str(no_work_slot(c[2], c[3])),
        pos |-> ((c[1] - 1) * 7 + c[2]) * 24 + c[3] ] :
      c \in {d \in (1..Len(hosts)) \X (0..6) \X (0..23) :
                /\ d[3] < working_start \/ d[3] >= working_end
                /\ 0 <= no_work_slot(d[2], d[3])
                /\ no_work_slot(d[2], d[3]) < num_slots} }

\* the calls made when the library refuses a label it already has: the loops
\* end with the first call that repeats a label
calls_until_refused(calls) ==
    LET repeats == {c \in calls : \E b \in calls : b.pos < c.pos /\ b.label = c.label}
    IN  IF repeats = {} THEN calls
        ELSE {c \in calls : \A r \in repeats : c.pos <= r.pos}

HoursInputs ==
    {[requests |-> rs, hosts |-> hs, constraints |-> <<>>] :
        rs \in ListsOf(FallbackRequestPool, MaxRequests),
        hs \in ListsOf(FallbackHostPool, MaxHosts)}

InitHours ==
    /\ sched = "hybrid"
    /\ problem_data \in HoursInputs
    /\ samplers = {"hybrid_sampler", "cqm_sampler"}
    /\ input = "json"
    /\ pc = "build"
    /\ bqm = NoValue
    /\ sample = <<>>
    /\ result = NoValue
    /\ rerun = NoValue
    /\ exc = "none"
    /\ solves = <<>>
    /\ fallbacks = 0

\* _build_cqm with its constraints: add_constraint is the library's, which
\* either takes every call or raises at a label it has already been given
BuildCqm ==
    /\ pc = "build" /\ sched = "hybrid"
    /\ ~CqmKeyMissing(problem_data)
    /\ \/ /\ bqm' = [ linear |-> cqm_objective(problem_data.requests, problem_data.hosts),
                       num_quadratic |-> 0,
                       no_work |-> no_work_calls(problem_data.hosts) ]
          /\ pc' = "solve"
          /\ UNCHANGED exc
       \/ /\ bqm' = [ linear |-> cqm_objective(problem_data.requests, problem_data.hosts),
                       num_quadratic |-> 0,
                       no_work |-> calls_until_refused(no_work_calls(problem_data.hosts)) ]
          /\ exc' = "ValueError"
          /\ pc' = "except"
    /\ UNCHANGED <<sched, problem_data, sample, result, solves, fallbacks, samplers, input, rerun>>

NextHours == BuildCqm \/ OptimizeExcept

SpecHours == InitHours /\ [][NextHours]_vars

\* C30: the working-hours constraints of _build_cqm never have a slot with
\* time-of-day index 0..6 as their target, and no two of them have the same
\* label.
C30_WorkingHoursOutsideOnly ==
    (sched = "hybrid" /\ bqm # NoValue) =>
        /\ \A c \in bqm.no_work : c.slot % 8 \notin 0..6
        /\ \A c \in bqm.no_work, b \in bqm.no_work :
              b.label = c.label => b.pos = c.pos

====
